---- MODULE Spec2Model ----
(***************************************************************************)
(* Authentication, session and access-control core of the pandemic API     *)
(* (api/auth.py, api/api_pandemies.py).  One PostgreSQL store (tables      *)
(* users and sessions) is shared by the per-country API instances; every   *)
(* request is handled by the instance whose COUNTRY it was sent to.        *)
(*                                                                         *)
(* Time is counted in hours.  The application clock (datetime.utcnow) and  *)
(* the store clock (NOW()) are one clock, `now`.  Session tokens           *)
(* (secrets.token_urlsafe(32)) are fresh values: a token is never drawn    *)
(* twice.  The optional columns email, full_name, ip_address and           *)
(* user_agent are carried by the code but never read by it, and are left   *)
(* out.                                                                    *)
(***************************************************************************)
EXTENDS Integers, Sequences, FiniteSets, TLC

VARIABLES
    users,      \* table users: id_user -> row
    sessions,   \* table sessions: token -> row
    now,        \* the clock, in hours
    nextId,     \* the id_user sequence of table users
    issued,     \* history: token -> what create_session stored for it
    removed,    \* history: the rows delete_user deleted, each with its caller's country
    revoked,    \* history: the tokens POST /auth/logout deleted
    last,       \* the step just taken: request and response
    pool,       \* the values the token generator has in store, in order
    inflight,   \* worker -> the login it is handling, between authenticate_user
                \* and create_session
    client      \* the dashboard's st.session_state, and what its page shows

vars == <<users, sessions, now, nextId, issued, removed, revoked, last, pool, inflight,
          client>>

(* ------------------------------ bounds -------------------------------- *)

MaxTime == 48
MaxUsers == 4
MaxInactive == 1

(* -------------------------- program constants -------------------------- *)

JWT_EXPIRE_HOURS == 24

\* the clock is read at whole session lifetimes
TickHours == JWT_EXPIRE_HOURS

None == "None"

Instances == {"FRANCE", "USA"}

\* the values secrets.token_urlsafe(32) returns, in the order it returns them
TokenPool == <<"t1", "t2">>

\* a longer run of the generator, for the behaviours of one user's many sessions
LongTokenPool == <<"t1", "t2", "t3">>

Tokens == {pool[i] : i \in 1..Len(pool)}

Passwords == {"pw", "bad"}

Salts == {"s1"}

(* ------------------------------ strings -------------------------------- *)

StartsWith(s, p) == Len(s) >= Len(p) /\ SubSeq(s, 1, Len(p)) = p

LowerChar(c) ==
    CASE c = "A" -> "a" [] c = "B" -> "b" [] c = "C" -> "c" [] c = "D" -> "d"
      [] c = "E" -> "e" [] c = "F" -> "f" [] c = "G" -> "g" [] c = "H" -> "h"
      [] c = "I" -> "i" [] c = "J" -> "j" [] c = "K" -> "k" [] c = "L" -> "l"
      [] c = "M" -> "m" [] c = "N" -> "n" [] c = "O" -> "o" [] c = "P" -> "p"
      [] c = "Q" -> "q" [] c = "R" -> "r" [] c = "S" -> "s" [] c = "T" -> "t"
      [] c = "U" -> "u" [] c = "V" -> "v" [] c = "W" -> "w" [] c = "X" -> "x"
      [] c = "Y" -> "y" [] c = "Z" -> "z" [] OTHER -> c

RECURSIVE Lower(_)
Lower(s) == IF s = "" THEN "" ELSE LowerChar(Head(s)) \o Lower(Tail(s))

RECURSIVE UntilSpace(_)
UntilSpace(s) ==
    IF s = "" \/ Head(s) = " " THEN "" ELSE Head(s) \o UntilSpace(Tail(s))

RECURSIVE AfterSpace(_)
AfterSpace(s) ==
    IF s = "" THEN "" ELSE IF Head(s) = " " THEN Tail(s) ELSE AfterSpace(Tail(s))

\* auth_header.split(' ')[1]
SplitSecond(s) == UntilSpace(AfterSpace(s))

\* Python truth value of an optional string
Truthy(s) == s # None /\ s # ""

(* ------------------------------ passwords ------------------------------ *)

hash_password(password, salt) == <<"bcrypt", salt, password>>

checkpw(password, hashed) == hash_password(password, hashed[2]) = hashed

(* ------------------------------ responses ------------------------------ *)

HTTPException(status_code, detail) ==
    [status |-> status_code, detail |-> detail, body |-> [none |-> TRUE],
     set_cookie |-> None]

Ok(body) == [status |-> 200, detail |-> None, body |-> body, set_cookie |-> None]

Step(op, inst, cookie, header, arg, ran, resp) ==
    [op |-> op, inst |-> inst, cookie |-> cookie, header |-> header, arg |-> arg,
     ran |-> ran, status |-> resp.status, detail |-> resp.detail,
     body |-> resp.body, set_cookie |-> resp.set_cookie]

(* -------------------------------- store -------------------------------- *)

NoRow == [none |-> TRUE]

NULL == <<>>

UserIds == 1..MaxUsers

InitialUsers ==
    (1 :> [id_user |-> 1, username |-> "alice", country |-> "FRANCE",
           role |-> "admin_france", is_active |-> TRUE, last_login |-> NULL,
           password_hash |-> hash_password("pw", "s1")]) @@
    (2 :> [id_user |-> 2, username |-> "bob", country |-> "FRANCE",
           role |-> "chercheur_france", is_active |-> TRUE, last_login |-> NULL,
           password_hash |-> hash_password("pw", "s1")]) @@
    (3 :> [id_user |-> 3, username |-> "carol", country |-> "USA",
           role |-> "admin_usa", is_active |-> TRUE, last_login |-> NULL,
           password_hash |-> hash_password("pw", "s1")])

\* the usernames logins are tried with; nobody is ever called mallory
Usernames == {"alice", "bob", "carol", "mallory"}

\* the roles asked of POST /auth/users
Roles == {"chercheur_france", "admin_france", "researcher_france", "admin_suisse"}

Bearer(t) == "Bearer " \o t

\* the (auth_token cookie, Authorization header) pairs requests carry
CookieRequests == {<<None, None>>} \cup {<<t, None>> : t \in Tokens}

HeaderRequests ==
    {<<None, Bearer(t)>> : t \in Tokens}
        \cup {<<p[1], Bearer(p[2])>> : p \in {q \in Tokens \X Tokens : q[1] # q[2]}}

Requests == CookieRequests \cup HeaderRequests

\* the (username, role) pairs asked of POST /auth/users
CreateInputs ==
    {<<"dave", role>> : role \in Roles}
        \cup {<<"carol", "chercheur_france">>, <<"bob", "chercheur_france">>}

DataEndpoints == {"/stats", "/pays", "/evolution", "/top", "/recent"}

\* rows of a table without the ones a predicate drops
Without(table, gone) == [k \in DOMAIN table \ gone |-> table[k]]

(* --------------------------- session store ---------------------------- *)

\* variant: the session is stored without a lifetime
SessionRow_no_lifetime(token, user_id) ==
    [token |-> token, user_id |-> user_id, expires_at |-> now]

\* variant: the lifetime is counted twice
SessionRow_two_lifetimes(token, user_id) ==
    [token |-> token, user_id |-> user_id,
     expires_at |-> now + JWT_EXPIRE_HOURS + JWT_EXPIRE_HOURS]

\* INSERT INTO sessions ...; expires_at = utcnow() + JWT_EXPIRE_HOURS
SessionRow(token, user_id) ==
    [token |-> token, user_id |-> user_id, expires_at |-> now + JWT_EXPIRE_HOURS]

\* sessions.user_id REFERENCES users(id_user) ON DELETE CASCADE: the session rows of
\* the users that are gone go too
OnDeleteCascade(ss, us) ==
    Without(ss, {t \in DOMAIN ss : ss[t].user_id \notin DOMAIN us})

\* variant: the expiry instant itself still counts as valid
SessionJoin_inclusive(token) ==
    {t \in DOMAIN sessions :
        /\ t = token
        /\ sessions[t].user_id \in DOMAIN users
        /\ sessions[t].expires_at >= now}

\* SELECT ... FROM sessions s JOIN users u ... WHERE s.token = %s AND s.expires_at > NOW()
SessionJoin(token) ==
    {t \in DOMAIN sessions :
        /\ t = token
        /\ sessions[t].user_id \in DOMAIN users
        /\ sessions[t].expires_at > now}

\* variant: the active flag of the session's user is not looked at
verify_session_any_user(token) ==
    IF SessionJoin(token) = {} THEN NoRow
    ELSE LET s == sessions[token]
             u == users[s.user_id]
         IN  [id_user |-> u.id_user, username |-> u.username,
              country |-> u.country, role |-> u.role,
              is_active |-> u.is_active, expires_at |-> s.expires_at]

verify_session(token) ==
    IF SessionJoin(token) = {} THEN NoRow
    ELSE LET s == sessions[token]
             u == users[s.user_id]
         IN  IF u.is_active
             THEN [id_user |-> u.id_user, username |-> u.username,
                   country |-> u.country, role |-> u.role,
                   is_active |-> u.is_active, expires_at |-> s.expires_at]
             ELSE NoRow

\* variant: the DELETE is never committed
delete_session_uncommitted(token) == sessions

\* variant: the DELETE takes every session of the token's user
delete_session_of_user(token) ==
    IF token \notin DOMAIN sessions THEN sessions
    ELSE Without(sessions,
                 {t \in DOMAIN sessions : sessions[t].user_id = sessions[token].user_id})

\* variant: the WHERE clause keeps the token's row and takes the others
delete_session_others(token) == Without(sessions, DOMAIN sessions \ {token})

\* DELETE FROM sessions WHERE token = %s
delete_session(token) == Without(sessions, {token})

(* ----------------------------- authenticator --------------------------- *)

\* variant: the query without its is_active condition
AuthRows_any_state(username, country) ==
    {id \in DOMAIN users :
        /\ users[id].username = username
        /\ users[id].country = country}

\* variant: the query without its country condition
AuthRows_any_country(username, country) ==
    {id \in DOMAIN users : users[id].username = username /\ users[id].is_active}

\* SELECT ... FROM users WHERE username = %s AND country = %s AND is_active = TRUE
AuthRows(username, country) ==
    {id \in DOMAIN users :
        /\ users[id].username = username
        /\ users[id].country = country
        /\ users[id].is_active}

\* the row authenticate_user returns for the row it fetched, NoRow on a bad password
authenticate_user(id, password) ==
    IF checkpw(password, users[id].password_hash) THEN users[id] ELSE NoRow

\* why a login with these inputs cannot succeed, read off the store alone
FailureCause(username, password, country) ==
    LET named == {id \in DOMAIN users : users[id].username = username}
        here  == {id \in named : users[id].country = country}
    IN  IF named = {} THEN "unknown username"
        ELSE IF here = {} THEN "other tenant"
        ELSE IF \A id \in here : ~users[id].is_active THEN "inactive"
        ELSE IF \A id \in here : users[id].password_hash[3] # password THEN "wrong password"
        ELSE "none"

(* ------------------------------- guards -------------------------------- *)

Pass(user) == [ok |-> TRUE, user |-> user, resp |-> Ok(NoRow)]

Deny(resp) == [ok |-> FALSE, user |-> NoRow, resp |-> resp]

\* variant: the Authorization header is read first
ExtractToken_header_first(cookie, header) ==
    IF Truthy(header) /\ StartsWith(header, "Bearer ") THEN SplitSecond(header)
    ELSE cookie

ExtractToken(cookie, header) ==
    IF Truthy(cookie) THEN cookie
    ELSE IF Truthy(header) /\ StartsWith(header, "Bearer ") THEN SplitSecond(header)
    ELSE cookie

get_current_user(cookie, header) ==
    LET token == ExtractToken(cookie, header)
    IN  IF ~Truthy(token) THEN NoRow ELSE verify_session(token)

require_auth(cookie, header) ==
    LET user == get_current_user(cookie, header)
    IN  IF user = NoRow
        THEN Deny(HTTPException(401, "Authentication required"))
        ELSE Pass(user)

\* variant: the instance's country is not compared
require_country_unchecked(api_country, current_user) == Pass(current_user)

require_country(api_country, current_user) ==
    IF current_user.country # api_country
    THEN Deny(HTTPException(403,
            "Access denied: This is " \o api_country
                \o " instance, you belong to " \o current_user.country))
    ELSE Pass(current_user)

\* variant: the role is not looked at
require_admin_unchecked(current_user) == Pass(current_user)

\* if not current_user['role'].startswith('admin_'): raise 403
require_admin(current_user) ==
    IF ~StartsWith(current_user.role, "admin_")
    THEN Deny(HTTPException(403, "Admin access required"))
    ELSE Pass(current_user)

\* Depends(require_auth), then require_country
Guard(inst, cookie, header) ==
    LET a == require_auth(cookie, header)
    IN  IF ~a.ok THEN a ELSE require_country(inst, a.user)

\* variant: the admin check comes before require_country
AdminGuard_role_first(inst, cookie, header) ==
    LET a == require_auth(cookie, header)
    IN  IF ~a.ok THEN a
        ELSE IF ~require_admin(a.user).ok THEN require_admin(a.user)
        ELSE require_country(inst, a.user)

\* ... then the admin check of the admin endpoints
AdminGuard(inst, cookie, header) ==
    LET g == Guard(inst, cookie, header)
    IN  IF ~g.ok THEN g ELSE require_admin(g.user)

(* -------------------------- user administration ------------------------ *)

\* variant: the whole row, its password_hash included, is selected
PublicRow_whole(u) == u

\* the columns get_users_by_country selects
PublicRow(u) ==
    [id_user |-> u.id_user, username |-> u.username, country |-> u.country,
     role |-> u.role, is_active |-> u.is_active, last_login |-> u.last_login]

\* SELECT ... FROM users WHERE country = %s AND role = %s: the call with a role
get_users_by_country_role(country, role) ==
    {PublicRow(users[id]) :
        id \in {i \in DOMAIN users : users[i].country = country /\ users[i].role = role}}

\* variant: the query without its WHERE clause
get_users_by_country_all(country) == {PublicRow(users[id]) : id \in DOMAIN users}

\* SELECT ... FROM users WHERE country = %s
get_users_by_country(country) ==
    {PublicRow(users[id]) : id \in {i \in DOMAIN users : users[i].country = country}}

\* variant: the country is not lower-cased
valid_roles_as_written(country) ==
    <<"chercheur_" \o country, "admin_" \o country>>

\* valid_roles = [f'chercheur_{country.lower()}', f'admin_{country.lower()}']
valid_roles(country) ==
    <<"chercheur_" \o Lower(country), "admin_" \o Lower(country)>>

\* variant: any role passes
InRoles_any(role, roles) == TRUE

InRoles(role, roles) == \E i \in 1..Len(roles) : roles[i] = role

InvalidRoleDetail(country) ==
    "Invalid role. Valid roles for " \o country \o ": ['"
        \o valid_roles(country)[1] \o "', '" \o valid_roles(country)[2] \o "']"

\* variant: the lookup finds nothing
UsernameTaken_never(username) == FALSE

\* SELECT id_user FROM users WHERE username = %s
UsernameTaken(username) == \E id \in DOMAIN users : users[id].username = username

\* is_active is not named by the INSERT: the column's default applies
DefaultIsActive == TRUE

\* INSERT INTO users (...) VALUES (...) RETURNING ...
NewUserRow(username, password, salt, country, role) ==
    [id_user |-> nextId, username |-> username, country |-> country, role |-> role,
     is_active |-> DefaultIsActive, last_login |-> NULL,
     password_hash |-> hash_password(password, salt)]

\* the outcome of create_user: a response and the users table after it
create_user(username, password, salt, country, role) ==
    IF UsernameTaken(username)
    THEN [resp |-> HTTPException(400, "Username already exists"), users |-> users]
    ELSE LET row == NewUserRow(username, password, salt, country, role)
         IN  [resp  |-> Ok([message |-> "User created successfully",
                            user |-> [id_user |-> row.id_user, username |-> row.username,
                                      country |-> row.country, role |-> row.role]]),
              users |-> (nextId :> row) @@ users]

\* variant: the DELETE is never committed
DeleteUserRow_uncommitted(us, user_id) == us

\* DELETE FROM users WHERE id_user = %s; conn.commit()
DeleteUserRow(us, user_id) == Without(us, {user_id})

\* variant: delete_user without its admin check
delete_user_any_role(user_id, admin_country) ==
    IF user_id \notin DOMAIN users
    THEN [resp |-> HTTPException(404, "User not found"), users |-> users]
    ELSE IF users[user_id].country # admin_country
    THEN [resp |-> HTTPException(403, "Can only delete users from your country"),
          users |-> users]
    ELSE [resp |-> Ok([message |-> "User deleted successfully"]),
          users |-> Without(users, {user_id})]

\* variant: delete_user without its country check
delete_user_any_country(user_id, admin_country) ==
    IF user_id \notin DOMAIN users
    THEN [resp |-> HTTPException(404, "User not found"), users |-> users]
    ELSE IF StartsWith(users[user_id].role, "admin_")
    THEN [resp |-> HTTPException(403, "Cannot delete admin users"), users |-> users]
    ELSE [resp |-> Ok([message |-> "User deleted successfully"]),
          users |-> Without(users, {user_id})]

\* the outcome of delete_user: a response and the users table after it
delete_user(user_id, admin_country) ==
    IF user_id \notin DOMAIN users
    THEN [resp |-> HTTPException(404, "User not found"), users |-> users]
    ELSE IF users[user_id].country # admin_country
    THEN [resp |-> HTTPException(403, "Can only delete users from your country"),
          users |-> users]
    ELSE IF StartsWith(users[user_id].role, "admin_")
    THEN [resp |-> HTTPException(403, "Cannot delete admin users"), users |-> users]
    ELSE [resp |-> Ok([message |-> "User deleted successfully"]),
          users |-> DeleteUserRow(users, user_id)]

(* ---------------------------- session reaper --------------------------- *)

\* the store function cleanup_expired_sessions(): DELETE ... WHERE expires_at < NOW()
DeleteExpired(ss) == Without(ss, {t \in DOMAIN ss : ss[t].expires_at < now})

\* the row of SELECT cleanup_expired_sessions() under RealDictCursor: keyed by
\* column name
CleanupRow(ss) ==
    [cleanup_expired_sessions |->
        Cardinality(DOMAIN ss) - Cardinality(DOMAIN DeleteExpired(ss))]

\* cursor_factory of get_db_connection
CursorFactory == "RealDictCursor"

\* row[0]: a RealDictRow has no integer keys, the lookup raises KeyError
IndexZero(row) ==
    IF CursorFactory = "RealDictCursor"
    THEN [raised |-> TRUE, value |-> 0]
    ELSE [raised |-> FALSE, value |-> row.cleanup_expired_sessions]

\* deleted_count = cursor.fetchone()[0], then conn.commit(); an exception
\* leaves the transaction uncommitted and conn.close() rolls it back
cleanup_expired_sessions ==
    LET got == IndexZero(CleanupRow(sessions))
    IN  IF got.raised
        THEN [raised |-> TRUE, deleted_count |-> 0, sessions |-> sessions]
        ELSE [raised |-> FALSE, deleted_count |-> got.value,
              sessions |-> DeleteExpired(sessions)]

InternalServerError == HTTPException(500, "Internal Server Error")

\* get_db_connection: psycopg2.connect failed
StoreDown == HTTPException(500, "Erreur base de données: ")

(* ------------------------------- actions ------------------------------- *)

\* the dashboard before anybody has signed in: no auth_token in st.session_state
NoClient == [auth_token |-> None, screen |-> "login", status |-> 200, dropped |-> FALSE]

NoStep == Step("init", None, None, None, None, "none", Ok(NoRow))

Init ==
    /\ users = InitialUsers
    /\ sessions = <<>>
    /\ now = 0
    /\ nextId = Cardinality(DOMAIN InitialUsers) + 1
    /\ issued = <<>>
    /\ removed = {}
    /\ revoked = {}
    /\ last = NoStep
    /\ pool = TokenPool
    /\ inflight = <<>>
    /\ client = NoClient

\* the worker is free: the previous response has been sent
Ready == last = NoStep

FreshTokens == Tokens \ DOMAIN issued

\* the token secrets.token_urlsafe(32) returns: one never returned before
NewToken ==
    IF FreshTokens = {} THEN None ELSE pool[Cardinality(DOMAIN issued) + 1]

\* INSERT INTO sessions (token, user_id, expires_at, ...); conn.commit()
create_session(token, user_id) == (token :> SessionRow(token, user_id)) @@ sessions

\* UPDATE users SET last_login = NOW() WHERE id_user = %s; conn.commit()
TouchLastLogin(id) == [users EXCEPT ![id].last_login = <<now>>]

\* POST /auth/login
Login(inst, username, password) ==
    /\ Ready
    /\ LET rows  == AuthRows(username, inst)
           cause == FailureCause(username, password, inst)
           req   == [username |-> username, password |-> password, cause |-> cause]
           fail  == Step("login", inst, None, None, req, "none",
                         HTTPException(401, "Invalid credentials or wrong country"))
       IN  IF rows = {}
           THEN /\ last' = fail
                /\ UNCHANGED <<client, pool, inflight, users, sessions, now, nextId, issued, removed, revoked>>
           ELSE \E id \in rows :
                   LET user == authenticate_user(id, password)
                   IN  IF user = NoRow
                       THEN /\ last' = fail
                            /\ UNCHANGED <<client, pool, inflight, users, sessions, now, nextId, issued, removed, revoked>>
                       ELSE /\ NewToken \in Tokens
                            /\ users' = TouchLastLogin(id)
                            /\ sessions' = create_session(NewToken, user.id_user)
                            /\ issued' = (NewToken :> [user_id |-> user.id_user,
                                                       username |-> username,
                                                       country |-> inst,
                                                       expires_at |-> now + JWT_EXPIRE_HOURS])
                                            @@ issued
                            /\ last' = Step("login", inst, None, None, req, "none",
                                            [Ok([message |-> "Login successful",
                                                 user |-> [username |-> user.username,
                                                           country |-> user.country,
                                                           role |-> user.role]])
                                             EXCEPT !.set_cookie = NewToken])
                            /\ UNCHANGED <<client, pool, inflight, now, nextId, removed, revoked>>

\* POST /auth/logout
Logout(inst, cookie, header) ==
    /\ Ready
    /\ sessions' = IF Truthy(cookie) THEN delete_session(cookie) ELSE sessions
    /\ revoked' = revoked \cup ({cookie} \cap DOMAIN issued)
    /\ last' = Step("logout", inst, cookie, header, None, "none",
                    [Ok([message |-> "Logout successful"]) EXCEPT !.set_cookie = ""])
    /\ UNCHANGED <<client, pool, inflight, users, now, nextId, issued, removed>>

\* GET /auth/me
Me(inst, cookie, header) ==
    /\ Ready
    /\ LET g == Guard(inst, cookie, header)
       IN  /\ last' = IF ~g.ok
                      THEN Step("/auth/me", inst, cookie, header, None, "none", g.resp)
                      ELSE Step("/auth/me", inst, cookie, header, None, "me",
                                Ok([user |-> [username |-> g.user.username,
                                              country |-> g.user.country,
                                              role |-> g.user.role]]))
           /\ UNCHANGED <<client, pool, inflight, users, sessions, now, nextId, issued, removed, revoked>>

\* GET /auth/users
ListUsers(inst, cookie, header) ==
    /\ Ready
    /\ LET g == AdminGuard(inst, cookie, header)
       IN  /\ last' = IF ~g.ok
                      THEN Step("GET /auth/users", inst, cookie, header, None, "none", g.resp)
                      ELSE Step("GET /auth/users", inst, cookie, header, None, "list",
                                Ok([users |-> get_users_by_country(g.user.country)]))
           /\ UNCHANGED <<client, pool, inflight, users, sessions, now, nextId, issued, removed, revoked>>

\* POST /auth/users
CreateUser(inst, cookie, header, username, password, salt, role) ==
    /\ Ready
    /\ LET g   == AdminGuard(inst, cookie, header)
           req == [username |-> username, role |-> role]
       IN  IF ~g.ok
           THEN /\ last' = Step("POST /auth/users", inst, cookie, header, req, "none", g.resp)
                /\ UNCHANGED <<client, pool, inflight, users, sessions, now, nextId, issued, removed, revoked>>
           ELSE IF ~InRoles(role, valid_roles(g.user.country))
           THEN /\ last' = Step("POST /auth/users", inst, cookie, header, req, "none",
                                HTTPException(400, InvalidRoleDetail(g.user.country)))
                /\ UNCHANGED <<client, pool, inflight, users, sessions, now, nextId, issued, removed, revoked>>
           ELSE LET out == create_user(username, password, salt, g.user.country, role)
                IN  /\ out.users # users => nextId <= MaxUsers
                    /\ users' = out.users
                    /\ nextId' = IF out.users # users THEN nextId + 1 ELSE nextId
                    /\ last' = Step("POST /auth/users", inst, cookie, header, req,
                                    "create", out.resp)
                    /\ UNCHANGED <<client, pool, inflight, sessions, now, issued, removed, revoked>>

\* DELETE /auth/users/{user_id}
DeleteUser(inst, cookie, header, user_id) ==
    /\ Ready
    /\ LET g == AdminGuard(inst, cookie, header)
       IN  IF ~g.ok
           THEN /\ last' = Step("DELETE /auth/users", inst, cookie, header, user_id,
                                "none", g.resp)
                /\ UNCHANGED <<client, pool, inflight, users, sessions, now, nextId, issued, removed, revoked>>
           ELSE LET out == delete_user(user_id, g.user.country)
                IN  /\ users' = out.users
                    /\ sessions' = OnDeleteCascade(sessions, out.users)
                    /\ removed' = IF out.resp.status = 200
                                  THEN removed \cup {[id_user |-> user_id,
                                                      country |-> users[user_id].country,
                                                      role |-> users[user_id].role,
                                                      by |-> inst]}
                                  ELSE removed
                    /\ last' = Step("DELETE /auth/users", inst, cookie, header, user_id,
                                    "delete", out.resp)
                    /\ UNCHANGED <<client, pool, inflight, now, nextId, issued, revoked>>

\* GET /stats, /pays/{maladie}, /evolution/{maladie}/{pays}, /top/{maladie},
\* /recent/{maladie}: the statistics tables are read, never written
Data(ep, inst, cookie, header) ==
    /\ Ready
    /\ LET g == Guard(inst, cookie, header)
       IN  /\ last' = IF ~g.ok
                      THEN Step(ep, inst, cookie, header, None, "none", g.resp)
                      ELSE Step(ep, inst, cookie, header, None, "query", Ok([data |-> ep]))
           /\ UNCHANGED <<client, pool, inflight, users, sessions, now, nextId, issued, removed, revoked>>

\* GET /auth/cleanup
Cleanup(inst, cookie, header) ==
    /\ Ready
    /\ LET g == AdminGuard(inst, cookie, header)
       IN  IF ~g.ok
           THEN /\ last' = Step("/auth/cleanup", inst, cookie, header, None, "none", g.resp)
                /\ UNCHANGED <<client, pool, inflight, users, sessions, now, nextId, issued, removed, revoked>>
           ELSE LET out == cleanup_expired_sessions
                IN  /\ sessions' = out.sessions
                    /\ last' = Step("/auth/cleanup", inst, cookie, header, None, "sweep",
                                    IF out.raised THEN InternalServerError
                                    ELSE Ok([deleted_count |-> out.deleted_count]))
                    /\ UNCHANGED <<client, pool, inflight, users, now, nextId, issued, removed, revoked>>

\* the operator's UPDATE users SET is_active = FALSE, outside the API; the accounts
\* switched off are accounts that have been used
Deactivate(user_id) ==
    /\ Ready
    /\ user_id \in DOMAIN users
    /\ users[user_id].is_active
    /\ users[user_id].last_login # NULL
    /\ Cardinality({id \in DOMAIN users : ~users[id].is_active}) < MaxInactive
    /\ users' = [users EXCEPT ![user_id].is_active = FALSE]
    /\ UNCHANGED <<client, pool, inflight, sessions, now, nextId, issued, removed, revoked, last>>

\* time passes; the clock stands at 0 until the first session exists, runs that
\* differ only by a shift of every timestamp being the same run
Tick ==
    /\ Ready
    /\ DOMAIN issued # {}
    /\ now + TickHours <= MaxTime
    /\ now' = now + TickHours
    /\ UNCHANGED <<client, pool, inflight, users, sessions, nextId, issued, removed, revoked, last>>

\* the response is sent and the request ends
Return ==
    /\ ~Ready
    /\ last' = NoStep
    /\ UNCHANGED <<client, pool, inflight, users, sessions, now, nextId, issued, removed, revoked>>

Next ==
    \/ \E inst \in Instances, u \in Usernames, p \in Passwords : Login(inst, u, p)
    \/ \E inst \in Instances, r \in Requests : Logout(inst, r[1], r[2])
    \/ \E inst \in Instances, r \in Requests : Me(inst, r[1], r[2])
    \/ \E inst \in Instances, r \in CookieRequests : ListUsers(inst, r[1], r[2])
    \/ \E inst \in Instances, r \in CookieRequests, in \in CreateInputs, s \in Salts :
          CreateUser(inst, r[1], r[2], in[1], "pw", s, in[2])
    \/ \E inst \in Instances, r \in CookieRequests, id \in UserIds :
          DeleteUser(inst, r[1], r[2], id)
    \/ \E ep \in DataEndpoints, inst \in Instances, r \in CookieRequests :
          Data(ep, inst, r[1], r[2])
    \/ \E inst \in Instances, r \in CookieRequests : Cleanup(inst, r[1], r[2])
    \/ \E id \in UserIds : Deactivate(id)
    \/ Tick
    \/ Return

Spec == Init /\ [][Next]_vars

(* ------------------- one tenant, several sessions a user ---------------- *)

\* the FRANCE instance alone, its admin and its researcher signing in with their
\* passwords, with tokens enough for a user to hold several sessions at once
InitSessions ==
    /\ users = InitialUsers
    /\ sessions = <<>>
    /\ now = 0
    /\ nextId = Cardinality(DOMAIN InitialUsers) + 1
    /\ issued = <<>>
    /\ removed = {}
    /\ revoked = {}
    /\ last = NoStep
    /\ pool = LongTokenPool
    /\ inflight = <<>>
    /\ client = NoClient

NextSessions ==
    \/ \E u \in {"alice", "bob"} : Login("FRANCE", u, "pw")
    \/ \E r \in Requests : Logout("FRANCE", r[1], r[2])
    \/ \E r \in Requests : Me("FRANCE", r[1], r[2])
    \/ \E r \in CookieRequests : DeleteUser("FRANCE", r[1], r[2], 2)
    \/ \E id \in UserIds : Deactivate(id)
    \/ Tick
    \/ Return

SpecSessions == InitSessions /\ [][NextSessions]_vars

(* --------------------------- logins side by side ------------------------ *)

\* the workers of one instance: each handles one request at a time
Workers == {"w1", "w2"}

\* POST /auth/login up to the return of authenticate_user, which has committed
\* last_login; a refused login is answered at once
LoginAuthenticate(w, inst, username, password) ==
    /\ Ready
    /\ w \notin DOMAIN inflight
    /\ LET rows  == AuthRows(username, inst)
           cause == FailureCause(username, password, inst)
           req   == [username |-> username, password |-> password, cause |-> cause]
           fail  == Step("login", inst, None, None, req, "none",
                         HTTPException(401, "Invalid credentials or wrong country"))
       IN  IF rows = {}
           THEN /\ last' = fail
                /\ UNCHANGED <<client, pool, inflight, users, sessions, now, nextId, issued,
                               removed, revoked>>
           ELSE \E id \in rows :
                   LET user == authenticate_user(id, password)
                   IN  IF user = NoRow
                       THEN /\ last' = fail
                            /\ UNCHANGED <<client, pool, inflight, users, sessions, now, nextId,
                                           issued, removed, revoked>>
                       ELSE /\ users' = TouchLastLogin(id)
                            /\ inflight' = (w :> [inst |-> inst, req |-> req, user |-> user])
                                              @@ inflight
                            /\ UNCHANGED <<client, pool, sessions, now, nextId, issued, removed,
                                           revoked, last>>

\* sessions.user_id REFERENCES users(id_user): a session row can be inserted only
\* for a user that is there
ForeignKeyHolds(user_id) == user_id \in DOMAIN users

\* the rest of POST /auth/login: create_session, the cookie, the response; an
\* INSERT the store refuses raises, nothing is stored and the answer is 500
LoginCreateSession(w) ==
    /\ Ready
    /\ w \in DOMAIN inflight
    /\ NewToken \in Tokens
    /\ LET lg == inflight[w]
       IN  IF ForeignKeyHolds(lg.user.id_user)
           THEN /\ sessions' = create_session(NewToken, lg.user.id_user)
                /\ issued' = (NewToken :> [user_id |-> lg.user.id_user,
                                           username |-> lg.req.username,
                                           country |-> lg.inst,
                                           expires_at |-> now + JWT_EXPIRE_HOURS,
                                           beside |-> {inflight[v].user.id_user :
                                                          v \in DOMAIN inflight \ {w}}])
                                @@ issued
                /\ last' = Step("login", lg.inst, None, None, lg.req, "none",
                                [Ok([message |-> "Login successful",
                                     user |-> [username |-> lg.user.username,
                                               country |-> lg.user.country,
                                               role |-> lg.user.role]])
                                 EXCEPT !.set_cookie = NewToken])
           ELSE /\ last' = Step("login", lg.inst, None, None,
                                [lg.req EXCEPT !.cause = "foreign key"], "none",
                                InternalServerError)
                /\ UNCHANGED <<sessions, issued>>
    /\ inflight' = Without(inflight, {w})
    /\ UNCHANGED <<client, pool, users, now, nextId, removed, revoked>>

\* the rest of POST /auth/login while the store cannot be reached:
\* create_session's get_db_connection raises, after authenticate_user has
\* committed last_login
LoginCreateSessionStoreDown(w) ==
    /\ Ready
    /\ w \in DOMAIN inflight
    /\ last' = Step("login", inflight[w].inst, None, None,
                    [inflight[w].req EXCEPT !.cause = "store"], "none", StoreDown)
    /\ inflight' = Without(inflight, {w})
    /\ UNCHANGED <<client, pool, users, sessions, now, nextId, issued, removed, revoked>>

\* the FRANCE instance with two workers: two logins can be under way at once
InitLogins ==
    /\ users = InitialUsers
    /\ sessions = <<>>
    /\ now = 0
    /\ nextId = Cardinality(DOMAIN InitialUsers) + 1
    /\ issued = <<>>
    /\ removed = {}
    /\ revoked = {}
    /\ last = NoStep
    /\ pool = TokenPool
    /\ inflight = <<>>
    /\ client = NoClient

NextLogins ==
    \/ \E w \in Workers, u \in {"alice", "bob"}, p \in Passwords :
          LoginAuthenticate(w, "FRANCE", u, p)
    \/ \E w \in Workers : LoginCreateSession(w)
    \/ \E r \in CookieRequests : Logout("FRANCE", r[1], r[2])
    \/ \E r \in CookieRequests : Me("FRANCE", r[1], r[2])
    \/ Tick
    \/ Return

SpecLogins == InitLogins /\ [][NextLogins]_vars

(* ------------------------ the dashboard and the store ------------------- *)

\* requests raised RequestException: no answer came within the timeout
RequestException ==
    [status |-> 0, detail |-> "RequestException", body |-> NoRow, set_cookie |-> None]

\* POST /auth/login while the store cannot be reached: authenticate_user's
\* get_db_connection raises
LoginStoreDown(inst, username, password) ==
    /\ Ready
    /\ last' = Step("login", inst, None, None,
                    [username |-> username, password |-> password, cause |-> "store"],
                    "none", StoreDown)
    /\ UNCHANGED <<client, pool, inflight, users, sessions, now, nextId, issued, removed,
                   revoked>>

\* GET /auth/me while the store cannot be reached: verify_session's
\* get_db_connection raises
MeStoreDown(inst, cookie, header) ==
    /\ Ready
    /\ last' = Step("/auth/me", inst, cookie, header, None, "none", StoreDown)
    /\ UNCHANGED <<client, pool, inflight, users, sessions, now, nextId, issued, removed,
                   revoked>>

\* a request of the dashboard that gets no answer in time
NoAnswer(op, inst, cookie, arg) ==
    /\ Ready
    /\ last' = Step(op, inst, cookie, None, arg, "none", RequestException)
    /\ UNCHANGED <<client, pool, inflight, users, sessions, now, nextId, issued, removed,
                   revoked>>

\* login_user and login_page, from the answer on: the token of a 200 is kept and
\* the user welcomed, anything else is shown as invalid credentials
login_user ==
    /\ last.op = "login"
    /\ client' = IF last.status = 200 /\ Truthy(last.set_cookie)
                 THEN [auth_token |-> last.set_cookie, screen |-> "welcome",
                       status |-> last.status, dropped |-> FALSE]
                 ELSE [client EXCEPT !.screen = "invalid_credentials",
                                     !.status = last.status, !.dropped = FALSE]
    /\ last' = NoStep
    /\ UNCHANGED <<pool, inflight, users, sessions, now, nextId, issued, removed, revoked>>

\* check_auth, from the answer on: a 200 is the user; any other answer deletes
\* st.session_state.auth_token; on RequestException the token stays
check_auth ==
    /\ last.op = "/auth/me"
    /\ client' = IF last.status = 200
                 THEN [client EXCEPT !.screen = "app", !.status = last.status,
                                     !.dropped = FALSE]
                 ELSE IF last = Step("/auth/me", last.inst, last.cookie, None, None,
                                     "none", RequestException)
                 THEN [client EXCEPT !.screen = "login", !.status = last.status,
                                     !.dropped = FALSE]
                 ELSE [auth_token |-> None, screen |-> "login",
                       status |-> last.status, dropped |-> TRUE]
    /\ last' = NoStep
    /\ UNCHANGED <<pool, inflight, users, sessions, now, nextId, issued, removed, revoked>>

\* one dashboard in front of the FRANCE instance; the dashboard's COUNTRY
DashboardCountry == "FRANCE"

InitDashboard ==
    /\ users = InitialUsers
    /\ sessions = <<>>
    /\ now = 0
    /\ nextId = Cardinality(DOMAIN InitialUsers) + 1
    /\ issued = <<>>
    /\ removed = {}
    /\ revoked = {}
    /\ last = NoStep
    /\ pool = LongTokenPool
    /\ inflight = <<>>
    /\ client = NoClient

NextDashboard ==
    \/ \E u \in Usernames, p \in Passwords :
          client.auth_token = None /\ Login(DashboardCountry, u, p)
    \/ \E u \in Usernames, p \in Passwords :
          client.auth_token = None /\ LoginStoreDown(DashboardCountry, u, p)
    \/ \E u \in Usernames, p \in Passwords :
          /\ client.auth_token = None
          /\ NoAnswer("login", DashboardCountry, None,
                      [username |-> u, password |-> p, cause |-> "timeout"])
    \/ client.auth_token # None /\ Me(DashboardCountry, client.auth_token, None)
    \/ client.auth_token # None /\ MeStoreDown(DashboardCountry, client.auth_token, None)
    \/ client.auth_token # None
          /\ NoAnswer("/auth/me", DashboardCountry, client.auth_token, None)
    \/ login_user
    \/ check_auth
    \/ \E id \in UserIds : Deactivate(id)
    \/ Tick

SpecDashboard == InitDashboard /\ [][NextDashboard]_vars

(* ------------------- a login beside the deletion of its user ------------ *)

\* the FRANCE instance with two workers: the researcher can be deleted, and the
\* store can fail, between the two halves of a login
InitLoginDelete ==
    /\ users = InitialUsers
    /\ sessions = <<>>
    /\ now = 0
    /\ nextId = Cardinality(DOMAIN InitialUsers) + 1
    /\ issued = <<>>
    /\ removed = {}
    /\ revoked = {}
    /\ last = NoStep
    /\ pool = LongTokenPool
    /\ inflight = <<>>
    /\ client = NoClient

NextLoginDelete ==
    \/ \E w \in Workers, u \in {"alice", "bob"}, p \in Passwords :
          LoginAuthenticate(w, "FRANCE", u, p)
    \/ \E w \in Workers : LoginCreateSession(w)
    \/ \E w \in Workers : LoginCreateSessionStoreDown(w)
    \/ \E r \in CookieRequests : Me("FRANCE", r[1], r[2])
    \/ \E r \in CookieRequests : DeleteUser("FRANCE", r[1], r[2], 2)
    \/ Tick
    \/ Return

SpecLoginDelete == InitLoginDelete /\ [][NextLoginDelete]_vars

(* ------------------------- creations side by side ----------------------- *)

\* users.username is UNIQUE: a row can be inserted only under a username no
\* committed row carries
UniqueUsernameHolds(username) == ~UsernameTaken(username)

\* except Exception as e: raise HTTPException(500, f"Error creating user: {e}")
ErrorCreatingUser == HTTPException(500, "Error creating user: ")

\* POST /auth/users up to the SELECT of create_user: the guards, the role, the
\* lookup of the username; a request refused by one of them is answered at once
CreateUserSelect(w, inst, cookie, header, username, password, salt, role) ==
    /\ Ready
    /\ w \notin DOMAIN inflight
    /\ LET g   == AdminGuard(inst, cookie, header)
           req == [username |-> username, role |-> role]
       IN  IF ~g.ok
           THEN /\ last' = Step("POST /auth/users", inst, cookie, header, req, "none", g.resp)
                /\ UNCHANGED <<client, pool, inflight, users, sessions, now, nextId, issued,
                               removed, revoked>>
           ELSE IF ~InRoles(role, valid_roles(g.user.country))
           THEN /\ last' = Step("POST /auth/users", inst, cookie, header, req, "none",
                                HTTPException(400, InvalidRoleDetail(g.user.country)))
                /\ UNCHANGED <<client, pool, inflight, users, sessions, now, nextId, issued,
                               removed, revoked>>
           ELSE IF UsernameTaken(username)
           THEN /\ last' = Step("POST /auth/users", inst, cookie, header, req, "create",
                                HTTPException(400, "Username already exists"))
                /\ UNCHANGED <<client, pool, inflight, users, sessions, now, nextId, issued,
                               removed, revoked>>
           ELSE /\ inflight' = (w :> [inst |-> inst, cookie |-> cookie, header |-> header,
                                      req |-> req, user |-> g.user, password |-> password,
                                      salt |-> salt,
                                      beside |-> {inflight[v].req.username :
                                                     v \in DOMAIN inflight}])
                                  @@ inflight
                /\ UNCHANGED <<client, pool, users, sessions, now, nextId, issued, removed,
                               revoked, last>>

\* the rest of create_user: the INSERT and conn.commit(); an INSERT the store
\* refuses raises, and create_new_user answers 500
CreateUserInsert(w) ==
    /\ Ready
    /\ w \in DOMAIN inflight
    /\ LET cr  == inflight[w]
           row == NewUserRow(cr.req.username, cr.password, cr.salt, cr.user.country,
                             cr.req.role)
           req == [username |-> cr.req.username, role |-> cr.req.role,
                   beside |-> cr.beside]
       IN  IF UniqueUsernameHolds(cr.req.username)
           THEN /\ nextId <= MaxUsers
                /\ users' = (nextId :> row) @@ users
                /\ nextId' = nextId + 1
                /\ last' = Step("POST /auth/users", cr.inst, cr.cookie, cr.header, req,
                                "create",
                                Ok([message |-> "User created successfully",
                                    user |-> [id_user |-> row.id_user,
                                              username |-> row.username,
                                              country |-> row.country,
                                              role |-> row.role]]))
           ELSE /\ last' = Step("POST /auth/users", cr.inst, cr.cookie, cr.header, req,
                                "create", ErrorCreatingUser)
                /\ UNCHANGED <<users, nextId>>
    /\ inflight' = Without(inflight, {w})
    /\ UNCHANGED <<client, pool, sessions, now, issued, removed, revoked>>

\* the roles asked of POST /auth/users at the two instances
BothRoles == {"chercheur_france", "chercheur_usa"}

\* the two instances, each with an admin signed in, on the one store
InitCreate ==
    /\ users = InitialUsers
    /\ sessions = <<>>
    /\ now = 0
    /\ nextId = Cardinality(DOMAIN InitialUsers) + 1
    /\ issued = <<>>
    /\ removed = {}
    /\ revoked = {}
    /\ last = NoStep
    /\ pool = TokenPool
    /\ inflight = <<>>
    /\ client = NoClient

NextCreate ==
    \/ \E inst \in Instances, u \in {"alice", "bob", "carol"} : Login(inst, u, "pw")
    \/ \E w \in Workers, inst \in Instances, r \in CookieRequests,
          u \in {"dave", "bob"}, role \in BothRoles, s \in Salts :
          CreateUserSelect(w, inst, r[1], r[2], u, "pw", s, role)
    \/ \E w \in Workers : CreateUserInsert(w)
    \/ Return

SpecCreate == InitCreate /\ [][NextCreate]_vars

(* ----------------------- the sweep beside other requests ---------------- *)

\* the session rows the sweeps under way have deleted and not yet committed:
\* another DELETE of such a row waits for the end of the sweep's transaction
Locked == UNION {inflight[w].locked : w \in DOMAIN inflight}

\* GET /auth/cleanup up to the return of cursor.execute("SELECT
\* cleanup_expired_sessions()"): the guards, then the store function's DELETE,
\* run at the transaction's NOW() and not yet committed
CleanupExecute(w, inst, cookie, header) ==
    /\ Ready
    /\ w \notin DOMAIN inflight
    /\ LET g == AdminGuard(inst, cookie, header)
       IN  IF ~g.ok
           THEN /\ last' = Step("/auth/cleanup", inst, cookie, header, None, "none", g.resp)
                /\ UNCHANGED <<client, pool, inflight, users, sessions, now, nextId, issued,
                               removed, revoked>>
           ELSE /\ (DOMAIN sessions \ DOMAIN DeleteExpired(sessions)) \cap Locked = {}
                /\ inflight' = (w :> [inst |-> inst, cookie |-> cookie, header |-> header,
                                      user |-> g.user, at |-> now,
                                      locked |-> DOMAIN sessions
                                                    \ DOMAIN DeleteExpired(sessions),
                                      issued |-> DOMAIN issued,
                                      revoked |-> revoked])
                                  @@ inflight
                /\ UNCHANGED <<client, pool, users, sessions, now, nextId, issued, removed,
                               revoked, last>>

\* the rest of cleanup_expired_sessions: fetchone()[0], then conn.commit(); when
\* the lookup raises, conn.close() rolls the DELETE back and the endpoint
\* answers 500
CleanupFetch(w) ==
    /\ Ready
    /\ w \in DOMAIN inflight
    /\ LET sw   == inflight[w]
           got  == IndexZero([cleanup_expired_sessions |-> Cardinality(sw.locked)])
           seen == [at |-> sw.at, locked |-> sw.locked,
                    logins |-> DOMAIN issued \ sw.issued,
                    logouts |-> revoked \ sw.revoked]
       IN  /\ sessions' = IF got.raised THEN sessions ELSE Without(sessions, sw.locked)
           /\ last' = Step("/auth/cleanup", sw.inst, sw.cookie, sw.header, seen, "sweep",
                           IF got.raised THEN InternalServerError
                           ELSE Ok([deleted_count |-> got.value]))
    /\ inflight' = Without(inflight, {w})
    /\ UNCHANGED <<client, pool, users, now, nextId, issued, removed, revoked>>

\* the FRANCE instance with two workers: a sweep can be under way while the
\* other worker answers logins and logouts
InitSweep ==
    /\ users = InitialUsers
    /\ sessions = <<>>
    /\ now = 0
    /\ nextId = Cardinality(DOMAIN InitialUsers) + 1
    /\ issued = <<>>
    /\ removed = {}
    /\ revoked = {}
    /\ last = NoStep
    /\ pool = LongTokenPool
    /\ inflight = <<>>
    /\ client = NoClient

NextSweep ==
    \/ \E u \in {"alice", "bob"} : Login("FRANCE", u, "pw")
    \/ \E r \in CookieRequests : r[1] \notin Locked /\ Logout("FRANCE", r[1], r[2])
    \/ \E w \in Workers, r \in CookieRequests : CleanupExecute(w, "FRANCE", r[1], r[2])
    \/ \E w \in Workers : CleanupFetch(w)
    \/ Tick
    \/ Return

SpecSweep == InitSweep /\ [][NextSweep]_vars

(* ------------------------- vocabulary of the claims -------------------- *)

ProtectedOps ==
    {"/auth/me", "GET /auth/users", "POST /auth/users", "DELETE /auth/users",
     "/auth/cleanup"} \cup DataEndpoints

\* the token a step's request carries: the cookie's, else the bearer header's
Presented(step) ==
    IF step.cookie \in Tokens THEN step.cookie
    ELSE IF \E t \in Tokens : step.header = Bearer(t)
         THEN CHOOSE t \in Tokens : step.header = Bearer(t)
         ELSE None

\* the session of token t is unexpired and its user is there and active
Live(t) ==
    /\ t \in DOMAIN sessions
    /\ sessions[t].user_id \in DOMAIN users
    /\ now < sessions[t].expires_at
    /\ users[sessions[t].user_id].is_active

Owner(t) == users[sessions[t].user_id]

\* the step's caller is an active admin of the instance's tenant with a live session
AdminCaller(step) ==
    /\ Presented(step) # None
    /\ Live(Presented(step))
    /\ Owner(Presented(step)).country = step.inst
    /\ StartsWith(Owner(Presented(step)).role, "admin_")

Unauthenticated(step) ==
    /\ step.status = 401
    /\ step.detail = "Authentication required"
    /\ step.body = NoRow
    /\ step.ran = "none"

TenantMismatch(step) ==
    /\ step.status = 403
    /\ StartsWith(step.detail, "Access denied: This is " \o step.inst \o " instance")
    /\ step.body = NoRow
    /\ step.ran = "none"

\* identify, by cookie and by bearer header, resolves token t to nobody
ResolvesToNobody(t) ==
    /\ get_current_user(t, None) = NoRow
    /\ get_current_user(None, Bearer(t)) = NoRow

(* -------------------------------- claims -------------------------------- *)

\* C1: a protected endpoint called with the live session of a user of another
\* tenant than the instance's answers TenantMismatch and runs none of its body.
TenantIsolation ==
    ( /\ last.op \in ProtectedOps
      /\ Presented(last) # None
      /\ Live(Presented(last))
      /\ Owner(Presented(last)).country # last.inst )
        => TenantMismatch(last)

TenantIsolationWitness ==
    /\ last.op = "DELETE /auth/users"
    /\ Presented(last) # None
    /\ Live(Presented(last))
    /\ Owner(Presented(last)).country # last.inst
    /\ StartsWith(Owner(Presented(last)).role, "admin_")
    /\ TenantMismatch(last)

\* C2: while a token's login has not been followed by its logout, the deletion or
\* deactivation of its user, or its expiry, identify resolves it to the username
\* and tenant of the login; the token a login returns is the one it stored.
LoginThenIdentify ==
    /\ \A t \in DOMAIN issued :
          ( /\ t \notin revoked
            /\ issued[t].user_id \in DOMAIN users
            /\ users[issued[t].user_id].is_active
            /\ now < issued[t].expires_at )
              => \A r \in {<<t, None>>, <<None, Bearer(t)>>} :
                    LET u == get_current_user(r[1], r[2])
                    IN  /\ u # NoRow
                        /\ u.username = issued[t].username
                        /\ u.country = issued[t].country
    /\ (last.op = "login" /\ last.status = 200)
          => /\ last.set_cookie \in DOMAIN issued
             /\ issued[last.set_cookie].username = last.arg.username
             /\ issued[last.set_cookie].country = last.inst
             /\ last.body.user.username = last.arg.username
             /\ last.body.user.country = last.inst

LoginThenIdentifyWitness ==
    /\ last.op = "/auth/me"
    /\ last.status = 200
    /\ last.cookie \in DOMAIN issued
    /\ last.body.user.username = issued[last.cookie].username
    /\ last.body.user.country = issued[last.cookie].country

\* C3: at and after a session's expiry its token resolves to nobody and a
\* protected call carrying it is Unauthenticated, the session row being there or not.
ExpiredIsUnauthenticated ==
    /\ \A t \in DOMAIN issued : now >= issued[t].expires_at => ResolvesToNobody(t)
    /\ ( /\ last.op \in ProtectedOps
         /\ Presented(last) \in DOMAIN issued
         /\ now >= issued[Presented(last)].expires_at )
           => Unauthenticated(last)

ExpiredIsUnauthenticatedWitness ==
    \E t \in DOMAIN sessions, u \in DOMAIN sessions :
        /\ sessions[t].expires_at < now
        /\ sessions[u].expires_at = now
        /\ last.op = "/auth/me"
        /\ last.cookie = u
        /\ Unauthenticated(last)

\* C4: a protected call gets past identify only with a token whose session row
\* exists, is unexpired and belongs to an active user; the session rows of an
\* inactive user, still in the table, resolve to nobody.
SessionValidOnlyWhileActive ==
    /\ (last.op \in ProtectedOps /\ last.status # 401)
          => /\ Presented(last) \in DOMAIN sessions
             /\ now < sessions[Presented(last)].expires_at
             /\ sessions[Presented(last)].user_id \in DOMAIN users
             /\ users[sessions[Presented(last)].user_id].is_active
    /\ \A t \in DOMAIN sessions :
          ( /\ sessions[t].user_id \in DOMAIN users
            /\ ~users[sessions[t].user_id].is_active )
              => ResolvesToNobody(t)

SessionValidOnlyWhileActiveWitness ==
    \E t \in DOMAIN sessions :
        /\ sessions[t].user_id \in DOMAIN users
        /\ ~users[sessions[t].user_id].is_active
        /\ now < sessions[t].expires_at
        /\ t \notin revoked
        /\ last.op = "/auth/me"
        /\ last.cookie = t
        /\ Unauthenticated(last)

\* C5: a login that cannot succeed, whether the username is unknown, belongs to
\* another tenant only, is inactive, or the password is wrong, gets one and the
\* same InvalidCredentials answer with no cookie, and leaves the sessions as they were.
LoginFailureUniform ==
    /\ [](last.op = "login" /\ last.arg.cause # "none"
            => /\ last.status = 401
               /\ last.detail = "Invalid credentials or wrong country"
               /\ last.body = NoRow
               /\ last.set_cookie = None)
    /\ [][last'.op = "login" /\ last'.arg.cause # "none"
            => sessions' = sessions /\ issued' = issued /\ users' = users]_vars

LoginFailureUniformWitness ==
    /\ last.op = "login"
    /\ last.arg.cause = "inactive"
    /\ last.arg.password = "pw"
    /\ last.status = 401
    /\ sessions # <<>>

\* the request's token cannot identify anybody: none, never issued, expired,
\* logged out, of an inactive user, of a deleted user
Unidentifiable(step) ==
    LET t == Presented(step)
    IN  \/ t = None
        \/ t \notin DOMAIN issued
        \/ now >= issued[t].expires_at
        \/ t \in revoked
        \/ issued[t].user_id \notin DOMAIN users
        \/ ~users[issued[t].user_id].is_active

\* C6: a protected call whose token is missing, unknown, expired, logged out, of
\* an inactive user or of a deleted user gets the same Unauthenticated answer.
UnauthenticatedUniform ==
    (last.op \in ProtectedOps /\ Unidentifiable(last)) => Unauthenticated(last)

UnauthenticatedUniformWitness ==
    /\ last.op \in DataEndpoints
    /\ last.cookie \in revoked
    /\ now < issued[last.cookie].expires_at
    /\ issued[last.cookie].user_id \in DOMAIN users
    /\ users[issued[last.cookie].user_id].is_active
    /\ Unauthenticated(last)

\* C7: once delete_user has removed a user, every token issued to that user
\* resolves to nobody and a protected call carrying one is Unauthenticated.
DeleteEndsSessions ==
    /\ \A t \in DOMAIN issued :
          (\E d \in removed : d.id_user = issued[t].user_id)
              => ResolvesToNobody(t)
    /\ ( /\ last.op \in ProtectedOps \ {"DELETE /auth/users"}
         /\ Presented(last) \in DOMAIN issued
         /\ \E d \in removed : d.id_user = issued[Presented(last)].user_id )
           => Unauthenticated(last)

DeleteEndsSessionsWitness ==
    \E d \in removed, t \in DOMAIN issued, u \in DOMAIN issued :
        /\ t # u
        /\ issued[t].user_id = d.id_user
        /\ issued[u].user_id = d.id_user
        /\ {t, u} \cap revoked = {}
        /\ now < issued[t].expires_at
        /\ now < issued[u].expires_at
        /\ last.op = "/auth/me"
        /\ last.header = Bearer(u)
        /\ Unauthenticated(last)

\* the target of a DELETE step, still in the table, is an admin
AdminTarget(step) ==
    /\ step.arg \in DOMAIN users
    /\ StartsWith(users[step.arg].role, "admin_")

ProtectedRole(step) == step.status = 403 /\ step.detail = "Cannot delete admin users"

ForeignTenant(step) ==
    step.status = 403 /\ step.detail = "Can only delete users from your country"

\* C8, as stated: delete_user, whenever it is called on a target whose role
\* starts with admin_, answers ProtectedRole, whatever the caller's tenant.
AdminTargetAlwaysProtectedRole ==
    (last.op = "DELETE /auth/users" /\ last.ran = "delete" /\ AdminTarget(last))
        => ProtectedRole(last)

\* C8, amended: a user whose role starts with admin_ is never removed; for a
\* caller who is an admin of the instance's tenant the answer is ProtectedRole
\* when the target is of that tenant and ForeignTenant when it is of another.
AdminTargetNeverRemoved ==
    /\ \A d \in removed : ~StartsWith(d.role, "admin_")
    /\ (last.op = "DELETE /auth/users" /\ AdminCaller(last) /\ AdminTarget(last))
          => /\ last.ran = "delete"
             /\ IF users[last.arg].country = last.inst
                THEN ProtectedRole(last)
                ELSE ForeignTenant(last)

AdminTargetNeverRemovedWitness ==
    /\ last.op = "DELETE /auth/users"
    /\ AdminCaller(last)
    /\ AdminTarget(last)
    /\ users[last.arg].country = last.inst
    /\ ProtectedRole(last)
    /\ removed # {}

\* C9: delete_user removes a row only when the target exists, is of the caller's
\* tenant and is not an admin; the rows gone are exactly the removed ones; a
\* target of another tenant is answered ForeignTenant and stays.
RemovesOnlyOwnTenantNonAdmin ==
    /\ \A d \in removed : d.country = d.by /\ ~StartsWith(d.role, "admin_")
    /\ {d.id_user : d \in removed} = (1..(nextId - 1)) \ DOMAIN users
    /\ (last.op = "DELETE /auth/users" /\ last.status = 200)
          => /\ last.arg \notin DOMAIN users
             /\ \E d \in removed : d.id_user = last.arg /\ d.by = last.inst
    /\ ( /\ last.op = "DELETE /auth/users"
         /\ AdminCaller(last)
         /\ last.arg \in DOMAIN users
         /\ users[last.arg].country # last.inst )
           => ForeignTenant(last)
    /\ ( /\ last.op = "DELETE /auth/users"
         /\ AdminCaller(last)
         /\ last.arg \notin DOMAIN users
         /\ last.arg \notin {d.id_user : d \in removed} )
           => last.status = 404

RemovesOnlyOwnTenantNonAdminWitness ==
    /\ last.op = "DELETE /auth/users"
    /\ AdminCaller(last)
    /\ last.arg \in DOMAIN users
    /\ users[last.arg].country # last.inst
    /\ ~StartsWith(users[last.arg].role, "admin_")
    /\ ForeignTenant(last)
    /\ \E d \in removed : d.country = users[last.arg].country

InvalidRole(step) == step.status = 400 /\ StartsWith(step.detail, "Invalid role")

\* the tenant's name as it appears in role names
TenantInRole(inst) == IF inst = "FRANCE" THEN "france" ELSE "usa"

\* C10, as stated: create_user answers InvalidRole unless the role is exactly
\* researcher_<tenant> or admin_<tenant> of the caller's tenant.
RoleIsResearcherOrAdmin ==
    (last.op = "POST /auth/users" /\ AdminCaller(last))
        => (InvalidRole(last) <=>
              last.arg.role \notin {"researcher_" \o TenantInRole(last.inst),
                                    "admin_" \o TenantInRole(last.inst)})

\* C10, amended: create_user answers InvalidRole, and stores nothing, unless the
\* role is exactly chercheur_<tenant> or admin_<tenant> of the caller's tenant.
RoleIsChercheurOrAdmin ==
    /\ (last.op = "POST /auth/users" /\ AdminCaller(last))
          => /\ InvalidRole(last) <=>
                    last.arg.role \notin {"chercheur_" \o TenantInRole(last.inst),
                                          "admin_" \o TenantInRole(last.inst)}
             /\ InvalidRole(last) => last.ran = "none"
    /\ \A id \in DOMAIN users :
          users[id].role \in {"chercheur_" \o TenantInRole(users[id].country),
                              "admin_" \o TenantInRole(users[id].country)}

RoleIsChercheurOrAdminWitness ==
    /\ last.op = "POST /auth/users"
    /\ AdminCaller(last)
    /\ last.arg.role = "admin_suisse"
    /\ InvalidRole(last)
    /\ \E id \in DOMAIN users : id \notin DOMAIN InitialUsers /\ users[id].role = "admin_france"

RECURSIVE AfterUnderscore(_)
\* the part of a role name after its first underscore: the tenant it names
AfterUnderscore(s) ==
    IF s = "" THEN ""
    ELSE IF Head(s) = "_" THEN Tail(s) ELSE AfterUnderscore(Tail(s))

\* C11: a row made by create_user has the tenant of the admin who called it and a
\* role naming that tenant in lower case; a request whose role names another
\* tenant is answered InvalidRole; a create request that fails inserts no row.
CreatedInCallersTenant ==
    /\ [](\A id \in DOMAIN users \ DOMAIN InitialUsers :
            AfterUnderscore(users[id].role) = TenantInRole(users[id].country))
    /\ [](\A d \in removed :
            d.id_user \notin DOMAIN InitialUsers
                => AfterUnderscore(d.role) = TenantInRole(d.country))
    /\ [](last.op = "POST /auth/users" /\ last.status = 200
            => /\ AdminCaller(last)
               /\ nextId - 1 \in DOMAIN users \ DOMAIN InitialUsers
               /\ users[nextId - 1].username = last.arg.username
               /\ users[nextId - 1].role = last.arg.role
               /\ users[nextId - 1].country = Owner(Presented(last)).country)
    /\ [](( /\ last.op = "POST /auth/users"
            /\ AdminCaller(last)
            /\ AfterUnderscore(last.arg.role) # TenantInRole(last.inst) )
              => InvalidRole(last))
    /\ [][last'.op = "POST /auth/users" /\ last'.status # 200
            => users' = users /\ nextId' = nextId]_vars

CreatedInCallersTenantWitness ==
    /\ last.op = "POST /auth/users"
    /\ last.inst = "USA"
    /\ AdminCaller(last)
    /\ last.arg.role = "admin_france"
    /\ InvalidRole(last)
    /\ DOMAIN users \ DOMAIN InitialUsers # {}

DuplicateUsername(step) ==
    step.status = 400 /\ step.detail = "Username already exists" /\ step.body = NoRow

\* C12: create_user, called by an admin of the instance's tenant with a valid
\* role and a username some row already carries, in the caller's tenant or in
\* another, answers DuplicateUsername and inserts no row; usernames stay unique.
DuplicateUsernameRejected ==
    /\ [](\A i \in DOMAIN users, j \in DOMAIN users :
            users[i].username = users[j].username => i = j)
    /\ [][( /\ last'.op = "POST /auth/users"
            /\ AdminCaller(last')
            /\ last'.arg.role \in {"chercheur_" \o TenantInRole(last'.inst),
                                   "admin_" \o TenantInRole(last'.inst)}
            /\ \E id \in DOMAIN users : users[id].username = last'.arg.username )
              => /\ DuplicateUsername(last')
                 /\ users' = users
                 /\ nextId' = nextId]_vars

DuplicateUsernameRejectedWitness ==
    /\ last.op = "POST /auth/users"
    /\ last.inst = "FRANCE"
    /\ AdminCaller(last)
    /\ last.arg.username = "carol"
    /\ \E id \in DOMAIN users : users[id].username = "carol" /\ users[id].country = "USA"
    /\ DuplicateUsername(last)

AdminOps == {"GET /auth/users", "POST /auth/users", "DELETE /auth/users", "/auth/cleanup"}

Forbidden(step) ==
    /\ step.status = 403
    /\ step.detail = "Admin access required"
    /\ step.body = NoRow
    /\ step.ran = "none"

\* the step's request carries the live session of a user who is not an admin
NonAdminCaller(step) ==
    /\ Presented(step) # None
    /\ Live(Presented(step))
    /\ ~StartsWith(Owner(Presented(step)).role, "admin_")

\* the step's request carries the live session of an admin, of whatever tenant
CarriesAdminSession(step) ==
    /\ Presented(step) # None
    /\ Live(Presented(step))
    /\ StartsWith(Owner(Presented(step)).role, "admin_")

\* what makes a user row the row it is: everything but the time of its last login
RowSet(us) ==
    [id \in DOMAIN us |->
        [username |-> us[id].username, country |-> us[id].country,
         role |-> us[id].role, is_active |-> us[id].is_active,
         password_hash |-> us[id].password_hash]]

\* C13, as stated: the four admin endpoints answer Forbidden to every caller
\* whose role does not start with admin_.
ForbiddenForEveryNonAdmin ==
    (last.op \in AdminOps /\ NonAdminCaller(last)) => Forbidden(last)

\* C13, amended: the four admin endpoints refuse every caller whose role does not
\* start with admin_, with Forbidden when the caller is of the instance's tenant
\* and with TenantMismatch when not; a request that does not carry an admin's
\* session leaves the set of user rows as it was and runs no listing, creation,
\* deletion or sweep.
AdminGating ==
    /\ []((last.op \in AdminOps /\ NonAdminCaller(last))
            => IF Owner(Presented(last)).country = last.inst
               THEN Forbidden(last)
               ELSE TenantMismatch(last))
    /\ [][(last' # NoStep /\ last' # last /\ ~CarriesAdminSession(last'))
            => /\ RowSet(users') = RowSet(users)
               /\ nextId' = nextId
               /\ removed' = removed
               /\ last'.ran \notin {"list", "create", "delete", "sweep"}
               /\ \A t \in DOMAIN sessions :
                     t \in DOMAIN sessions' \/ (last'.op = "logout" /\ last'.cookie = t)]_vars

AdminGatingWitness ==
    /\ last.op = "/auth/cleanup"
    /\ NonAdminCaller(last)
    /\ Owner(Presented(last)).country = last.inst
    /\ Forbidden(last)
    /\ \E t \in DOMAIN sessions : sessions[t].expires_at < now

\* the session of token t resolves, by cookie, to the user it was issued to
ResolvesToItsUser(t) ==
    /\ get_current_user(t, None) # NoRow
    /\ get_current_user(t, None).id_user = issued[t].user_id
    /\ get_current_user(t, None).username = issued[t].username

\* C14: two sessions of one user, from logins one after the other or side by
\* side, have tokens of their own; each resolves to the user while it is
\* unexpired and not logged out, whatever became of the other; a login adds one
\* session under a token never used before, and a logout deletes at most the
\* session of its own token.
SessionsIndependent ==
    /\ [](\A t \in DOMAIN issued, u \in DOMAIN issued :
            ( /\ t # u
              /\ issued[t].user_id = issued[u].user_id
              /\ issued[t].user_id \in DOMAIN users
              /\ users[issued[t].user_id].is_active
              /\ t \notin revoked
              /\ now < issued[t].expires_at )
                => ResolvesToItsUser(t))
    /\ [][(last'.op = "login" /\ last'.status = 200)
            => /\ last'.set_cookie \notin DOMAIN sessions
               /\ last'.set_cookie \notin DOMAIN issued
               /\ DOMAIN sessions' = DOMAIN sessions \cup {last'.set_cookie}
               /\ \A t \in DOMAIN sessions : sessions'[t] = sessions[t]]_vars
    /\ [][last'.op = "logout"
            => /\ DOMAIN sessions \ {last'.cookie} \subseteq DOMAIN sessions'
               /\ \A t \in DOMAIN sessions' : sessions'[t] = sessions[t]]_vars

\* two logins of one user were under way at once; one of the two tokens has been
\* logged out and the other still identifies the user
SessionsIndependentWitness ==
    \E t \in DOMAIN issued, u \in DOMAIN issued :
        /\ t # u
        /\ issued[t].user_id = issued[u].user_id
        /\ issued[u].user_id \in issued[t].beside
        /\ t \in revoked
        /\ last.op = "/auth/me"
        /\ last.cookie = u
        /\ last.status = 200
        /\ last.body.user.username = issued[u].username

\* C15: once a sweep has been called, no session whose expiry is strictly before
\* the time of the sweep is left in the store, and the sessions that are left are
\* exactly the ones not expired.
SweepRemovesExpired ==
    last.ran = "sweep" => \A t \in DOMAIN sessions : ~(sessions[t].expires_at < now)

\* C16: the cleanup endpoint, called by an admin of the instance's tenant, runs
\* the sweep, answers with success and reports the number of session rows removed.
CleanupReportsCount ==
    (last.op = "/auth/cleanup" /\ AdminCaller(last))
        => /\ last.ran = "sweep"
           /\ last.status = 200
           /\ last.body # NoRow

\* C17: logout always answers success; with a token that is unknown, already
\* deleted or missing it leaves the sessions as they were; it touches no session
\* but its token's; and logging out once more with the same token changes nothing.
LogoutIdempotent ==
    /\ [](last.op = "logout"
            => /\ last.status = 200
               /\ last.body = [message |-> "Logout successful"]
               /\ last.cookie \notin DOMAIN sessions
               /\ Truthy(last.cookie) => delete_session(last.cookie) = sessions)
    /\ [][last'.op = "logout"
            => /\ last'.cookie \notin DOMAIN sessions => sessions' = sessions
               /\ sessions' = Without(sessions, {last'.cookie})
               /\ users' = users]_vars

LogoutIdempotentWitness ==
    /\ last.op = "logout"
    /\ last.cookie \in Tokens \ DOMAIN issued
    /\ last.status = 200
    /\ sessions # <<>>

\* C18: after a logout whose request carried a token, in the cookie or, there
\* being no cookie, in the bearer header, that token identifies nobody.
LogoutDeletesCurrentToken ==
    (last.op = "logout" /\ Presented(last) # None) => ResolvesToNobody(Presented(last))

\* C19: with a cookie token in the request the outcome of identify is the cookie
\* token's alone, whatever the bearer header carries; the header's token is used
\* only when there is no cookie token.
CookiePrecedence ==
    /\ \A c \in Tokens, h \in Tokens :
          get_current_user(c, Bearer(h)) = get_current_user(c, None)
    /\ \A h \in Tokens :
          get_current_user(None, Bearer(h)) = get_current_user(h, None)
    /\ (last.op = "/auth/me" /\ last.cookie \in Tokens)
          => /\ last.status = 200 <=> (Live(last.cookie) /\ Owner(last.cookie).country = last.inst)
             /\ last.status = 200
                   => last.body.user.username = Owner(last.cookie).username
             /\ ~Live(last.cookie) => Unauthenticated(last)
    /\ (last.op = "/auth/me" /\ last.cookie = None /\ Presented(last) # None)
          => /\ last.status = 200
                   <=> ( /\ Live(Presented(last))
                         /\ Owner(Presented(last)).country = last.inst )
             /\ ~Live(Presented(last)) => Unauthenticated(last)

\* a dead cookie token beside a live header token: nobody is identified
CookiePrecedenceWitness ==
    /\ last.op = "/auth/me"
    /\ last.cookie \in Tokens
    /\ ~Live(last.cookie)
    /\ \E h \in Tokens : last.header = Bearer(h) /\ Live(h)
    /\ Unauthenticated(last)

\* a live cookie token beside a dead header token: the cookie's user is identified
CookiePrecedenceWitnessLive ==
    /\ last.op = "/auth/me"
    /\ last.cookie \in Tokens
    /\ Live(last.cookie)
    /\ \E h \in Tokens : last.header = Bearer(h) /\ ~Live(h)
    /\ last.status = 200

\* C20: a store failure or a timeout during login or identify is answered by the
\* API with something other than InvalidCredentials and Unauthenticated, and the
\* dashboard, having met such a failure, neither deletes its token nor shows
\* invalid credentials.
StoreFailureIsNotAuthFailure ==
    /\ (last.op \in {"login", "/auth/me"} /\ last.detail = StoreDown.detail)
          => last.status \notin {200, 401, 403}
    /\ client.status \in {0, 500}
          => ~client.dropped /\ client.screen # "invalid_credentials"

\* the part of C20 that is about the API alone
StoreFailureDistinctAtApi ==
    (last.op \in {"login", "/auth/me"} /\ last.detail = StoreDown.detail)
        => last.status \notin {200, 401, 403}

\* the dashboard held a token that still identifies its user, met a store
\* failure on /auth/me, and deleted the token
TokenDroppedOnStoreFailure ==
    /\ client.status = 500
    /\ client.dropped
    /\ \E t \in DOMAIN sessions : Live(t) /\ t \notin revoked

\* a response body, or a user record inside it, carries a password_hash
ExposesHash(body) ==
    \/ "password_hash" \in DOMAIN body
    \/ "user" \in DOMAIN body /\ "password_hash" \in DOMAIN body.user
    \/ "users" \in DOMAIN body /\ \E u \in body.users : "password_hash" \in DOMAIN u

\* C21: no response of login, me, list_users, create_user or delete_user, nor of
\* any other endpoint, carries a password hash, while every stored row has one.
NoHashInResponses ==
    /\ ~ExposesHash(last.body)
    /\ \A id \in DOMAIN users : "password_hash" \in DOMAIN users[id]

NoHashInResponsesWitness ==
    /\ last.op = "GET /auth/users"
    /\ last.status = 200
    /\ Cardinality(last.body.users) >= 2
    /\ \E u \in last.body.users : u.id_user \notin DOMAIN InitialUsers

\* the roles user rows can carry
StoredRoles == Roles \cup {users[id].role : id \in DOMAIN users}

\* C22: list_users, answered with success, returns one row for each user of the
\* calling admin's tenant, which is the instance's, each row as the store has it,
\* and no row of a user of another tenant; asked for one role, the query returns
\* the users of that tenant and role and no others.
ListsOwnTenantOnly ==
    /\ (last.op = "GET /auth/users" /\ last.status = 200)
          => /\ AdminCaller(last)
             /\ {u.id_user : u \in last.body.users}
                   = {id \in DOMAIN users :
                         users[id].country = Owner(Presented(last)).country}
             /\ \A u \in last.body.users :
                   /\ u.country = last.inst
                   /\ u.id_user \in DOMAIN users
                   /\ u.username = users[u.id_user].username
                   /\ u.role = users[u.id_user].role
             /\ Cardinality(last.body.users)
                   = Cardinality({id \in DOMAIN users : users[id].country = last.inst})
    /\ last.op = "GET /auth/users"
          => \A r \in StoredRoles :
                LET rows == get_users_by_country_role(last.inst, r)
                IN  /\ {u.id_user : u \in rows}
                          = {id \in DOMAIN users :
                                users[id].country = last.inst /\ users[id].role = r}
                    /\ \A u \in rows : u.country = last.inst /\ u.role = r

ListsOwnTenantOnlyWitness ==
    /\ last.op = "GET /auth/users"
    /\ last.status = 200
    /\ last.inst = "FRANCE"
    /\ Cardinality(last.body.users) = 3
    /\ \E id \in DOMAIN users : users[id].country = "USA"
    /\ \E u \in last.body.users : StartsWith(u.role, "chercheur_") /\ u.last_login # NULL

\* C23: whatever logins and logouts run beside a sweep, a session that is gone
\* was logged out or had expired before the sweep's reference time, a session
\* created while the sweep ran is still there, and the sweep and the logouts
\* beside it all answer success, the rows they both went for being gone.
SweepSafeBesideLoginLogout ==
    /\ \A t \in DOMAIN issued \ DOMAIN sessions :
          t \in revoked \/ issued[t].expires_at < now
    /\ last.op = "logout" => last.status = 200
    /\ last.ran = "sweep"
          => /\ last.arg.logins \subseteq DOMAIN sessions \cup revoked
             /\ last.status = 200
             /\ last.arg.locked \cap DOMAIN sessions = {}

\* the part of C23 that is about what a sweep may remove
SweepKeepsUnexpired ==
    /\ \A t \in DOMAIN issued \ DOMAIN sessions :
          t \in revoked \/ issued[t].expires_at < now
    /\ last.op = "logout" => last.status = 200
    /\ last.ran = "sweep" => last.arg.logins \subseteq DOMAIN sessions \cup revoked

\* a sweep that went for an expired session fails while a login and a logout
\* went through beside it
SweepFailsBesideLoginLogout ==
    /\ last.ran = "sweep"
    /\ last.arg.locked # {}
    /\ last.arg.logins # {}
    /\ last.arg.logouts # {}
    /\ last.status = 500
    /\ last.arg.locked \subseteq DOMAIN sessions

\* C24: with delete_user running beside identify and beside a login of the same
\* user that has verified the credentials and not yet inserted the session,
\* every session row's user exists, every token issued to a removed user
\* resolves to nobody, a login that succeeds leaves a session of a user who
\* exists, and identify never answers with a user whose row is gone.
DeleteAtomicBesideLogin ==
    /\ \A t \in DOMAIN sessions : sessions[t].user_id \in DOMAIN users
    /\ \A t \in DOMAIN issued :
          (\E d \in removed : d.id_user = issued[t].user_id)
              => t \notin DOMAIN sessions /\ ResolvesToNobody(t)
    /\ (last.op = "login" /\ last.status = 200)
          => /\ last.set_cookie \in DOMAIN sessions
             /\ sessions[last.set_cookie].user_id \in DOMAIN users
             /\ users[sessions[last.set_cookie].user_id].username = last.arg.username
    /\ (last.op = "/auth/me" /\ last.status = 200)
          => /\ last.cookie \in DOMAIN sessions
             /\ sessions[last.cookie].user_id \in DOMAIN users
             /\ users[sessions[last.cookie].user_id].username = last.body.user.username
             /\ ~\E d \in removed : d.id_user = sessions[last.cookie].user_id

\* the researcher was deleted, sessions and all, between the two halves of a
\* login: the login ends without a session
DeleteAtomicBesideLoginWitness ==
    /\ last.op = "login"
    /\ last.arg.cause = "foreign key"
    /\ last.arg.username = "bob"
    /\ last.status = 500
    /\ \E d \in removed : d.id_user = 2
    /\ \E t \in DOMAIN issued : issued[t].user_id = 2

\* C25: no two user rows carry one username, also when two create_user calls
\* for one username, at one instance or at two, run side by side; the call that
\* does not insert its row answers DuplicateUsername.
UsernamesUniqueBesideCreate ==
    /\ \A i \in DOMAIN users, j \in DOMAIN users :
          users[i].username = users[j].username => i = j
    /\ (last.op = "POST /auth/users" /\ last.ran = "create" /\ last.status # 200)
          => DuplicateUsername(last)

\* the part of C25 that is about the rows alone
UsernamesStayUnique ==
    \A i \in DOMAIN users, j \in DOMAIN users :
        users[i].username = users[j].username => i = j

\* two creations of one username by admins of two tenants ran side by side; one
\* row was inserted and the other call was answered 500
CreateLoserGetsServerError ==
    /\ last.op = "POST /auth/users"
    /\ last.status = 500
    /\ last.inst = "USA"
    /\ last.arg.username \in last.arg.beside
    /\ \E id \in DOMAIN users :
          users[id].username = last.arg.username /\ users[id].country = "FRANCE"

\* the time of the login that issued token t
IssuedAt(t) == issued[t].expires_at - JWT_EXPIRE_HOURS

\* C26: a user row is as it was inserted but for its last_login, which was set
\* by a login of that user that ended with a session or is still under way; a
\* row is gone only by a successful delete_user; a login that fails changes no
\* row.
UserRowsChangeOnlyOnSuccess ==
    /\ \A id \in DOMAIN users \cap DOMAIN InitialUsers :
          [users[id] EXCEPT !.last_login = NULL] = InitialUsers[id]
    /\ \A id \in DOMAIN users : users[id].id_user = id
    /\ {d.id_user : d \in removed} = (1..(nextId - 1)) \ DOMAIN users
    /\ \A id \in DOMAIN users :
          users[id].last_login # NULL
              => \/ \E t \in DOMAIN issued :
                       issued[t].user_id = id /\ users[id].last_login[1] <= IssuedAt(t)
                 \/ \E w \in DOMAIN inflight : inflight[w].user.id_user = id

\* the part of C26 that is about requests handled one at a time, the store
\* answering: step by step, the user rows change by a successful login (the
\* last_login of its user), a successful create_user (one new row) or a
\* successful delete_user (one row gone), and by no other request; no step
\* changes the id, the tenant or the role of a row
UserRowsFrame ==
    [][ /\ \A id \in DOMAIN users \cap DOMAIN users' :
              /\ users'[id].id_user = users[id].id_user
              /\ users'[id].country = users[id].country
              /\ users'[id].role = users[id].role
              /\ users'[id].username = users[id].username
              /\ users'[id].password_hash = users[id].password_hash
        /\ (last' # last /\ last' # NoStep)
              => IF last'.op = "login" /\ last'.status = 200
                 THEN users' = [users EXCEPT
                                  ![issued'[last'.set_cookie].user_id].last_login = <<now>>]
                 ELSE IF last'.op = "POST /auth/users" /\ last'.status = 200
                 THEN /\ DOMAIN users' = DOMAIN users \cup {nextId}
                      /\ nextId \notin DOMAIN users
                      /\ \A id \in DOMAIN users : users'[id] = users[id]
                 ELSE IF last'.op = "DELETE /auth/users" /\ last'.status = 200
                 THEN last'.arg \in DOMAIN users /\ users' = Without(users, {last'.arg})
                 ELSE users' = users ]_vars

\* a login of bob was refused with 500 after his credentials had been verified:
\* his row carries the time of a login that gave him no session
FailedLoginTouchedRow ==
    /\ last.op = "login"
    /\ last.status = 500
    /\ last.arg.cause = "store"
    /\ last.arg.username = "bob"
    /\ 2 \in DOMAIN users
    /\ users[2].last_login # NULL
    /\ \A t \in DOMAIN issued : issued[t].user_id # 2

\* C29: a login that answers success has created a session row for its user
\* under the token it returns, and the user's last_login is set; a login that
\* answers anything else has created no session and leaves the user's
\* last_login as it was when the login began.
LoginAllOrNothing ==
    [][ (last'.op = "login" /\ last' # last)
          => IF last'.status = 200
             THEN /\ last'.set_cookie \in DOMAIN sessions' \ DOMAIN sessions
                  /\ sessions'[last'.set_cookie].user_id \in DOMAIN users'
                  /\ users'[sessions'[last'.set_cookie].user_id].username
                        = last'.arg.username
                  /\ users'[sessions'[last'.set_cookie].user_id].last_login # NULL
             ELSE /\ sessions' = sessions
                  /\ issued' = issued
                  /\ inflight' = inflight => users' = users
                  /\ \A w \in DOMAIN inflight \ DOMAIN inflight' :
                        inflight[w].user.id_user \in DOMAIN users'
                            => users'[inflight[w].user.id_user].last_login
                                  = inflight[w].user.last_login ]_vars

\* C27: a session's expiry is the time of its login plus 24 hours and stays what
\* it was at creation, whatever requests carried the token since; at and after
\* that time the token resolves to nobody.
ExpiryFixedAtCreation ==
    /\ (last.op = "login" /\ last.status = 200)
          => /\ last.set_cookie \in DOMAIN sessions
             /\ sessions[last.set_cookie].expires_at = now + 24
    /\ \A t \in DOMAIN sessions :
          /\ t \in DOMAIN issued
          /\ sessions[t].expires_at = issued[t].expires_at
          /\ now >= sessions[t].expires_at => ResolvesToNobody(t)
    /\ (last.op \in ProtectedOps /\ last.status = 200)
          => now < issued[Presented(last)].expires_at

\* a token that is neither logged out nor of a user gone or switched off is
\* refused exactly 24 hours after its login
ExpiryFixedAtCreationWitness ==
    /\ last.op \in DataEndpoints
    /\ last.cookie \in DOMAIN sessions
    /\ last.cookie \notin revoked
    /\ users[sessions[last.cookie].user_id].is_active
    /\ users[sessions[last.cookie].user_id].country = last.inst
    /\ now = IssuedAt(last.cookie) + 24
    /\ Unauthenticated(last)

\* C28: on the admin endpoints a request that identifies nobody is answered
\* Unauthenticated whatever its target; a request of a user of another tenant is
\* answered TenantMismatch, admin or not; Forbidden is the answer to the
\* non-admins of the instance's tenant and to nobody else; and the listing,
\* creation, deletion or sweep runs only for an admin of the instance's tenant.
GuardOrder ==
    last.op \in AdminOps
        => /\ Unidentifiable(last) => Unauthenticated(last)
           /\ Unauthenticated(last) => Unidentifiable(last)
           /\ ~Unidentifiable(last)
                 => /\ Live(Presented(last))
                    /\ Owner(Presented(last)).country # last.inst => TenantMismatch(last)
                    /\ Forbidden(last)
                          <=> /\ Owner(Presented(last)).country = last.inst
                              /\ ~StartsWith(Owner(Presented(last)).role, "admin_")
                    /\ ( /\ Owner(Presented(last)).country = last.inst
                         /\ StartsWith(Owner(Presented(last)).role, "admin_") )
                          => ~TenantMismatch(last) /\ ~Forbidden(last)
           /\ last.ran # "none" => AdminCaller(last)

\* an admin of another tenant asks for the deletion of a user who does not exist
GuardOrderWitness ==
    /\ last.op = "DELETE /auth/users"
    /\ last.arg \notin DOMAIN users
    /\ CarriesAdminSession(last)
    /\ Owner(Presented(last)).country # last.inst
    /\ TenantMismatch(last)
    /\ \E t \in DOMAIN sessions : Live(t) /\ ~StartsWith(Owner(t).role, "admin_")

\* C30: a token is the key of at most one session row, which is the row its
\* login stored; whenever identify resolves a token, by cookie or by header, the
\* user is the one whose login produced it; and every session was created by
\* the instance of its user's tenant.
TokenBinding ==
    /\ \A t \in DOMAIN sessions, u \in DOMAIN sessions :
          sessions[t].token = sessions[u].token => t = u
    /\ \A t \in DOMAIN sessions :
          /\ sessions[t].token = t
          /\ t \in DOMAIN issued
          /\ sessions[t].user_id = issued[t].user_id
    /\ \A t \in DOMAIN issued :
          /\ \A r \in {<<t, None>>, <<None, Bearer(t)>>} :
                LET u == get_current_user(r[1], r[2])
                IN  u # NoRow
                       => u.id_user = issued[t].user_id /\ u.username = issued[t].username
          /\ issued[t].user_id \in DOMAIN users
                => /\ users[issued[t].user_id].country = issued[t].country
                   /\ users[issued[t].user_id].username = issued[t].username
          /\ \A d \in removed : d.id_user = issued[t].user_id => d.country = issued[t].country
    /\ (last.op = "login" /\ last.status = 200)
          => users[sessions[last.set_cookie].user_id].country = last.inst
    /\ (last.op \in ProtectedOps /\ last.status = 200)
          => /\ Owner(Presented(last)).id_user = issued[Presented(last)].user_id
             /\ Owner(Presented(last)).country = last.inst

\* the tokens of users of two tenants each identify their own user
TokenBindingWitness ==
    /\ last.op = "/auth/me"
    /\ last.status = 200
    /\ last.inst = "USA"
    /\ last.body.user.username = issued[Presented(last)].username
    /\ \E t \in DOMAIN sessions :
          /\ Live(t)
          /\ Owner(t).country = "FRANCE"
          /\ get_current_user(None, Bearer(t)).id_user = issued[t].user_id

====
